---- MODULE Spec2Model ----
(***************************************************************************)
(* Model of the mask consistency engine of dcp_client                      *)
(* (src/client/dcp_client/utils/utils.py, class Compute4Mask) and of the   *)
(* places of gui/napari_window.py that call it.                            *)
(*                                                                         *)
(* A mask is a function from the pixels <<row, col>> (0-based, as numpy    *)
(* indexes them) of a shape <<H, W>> to integers; 0 is background.         *)
(* numpy arrays are passed by reference: an operation that writes into its *)
(* argument changes the caller's array, so the caller's arrays are state   *)
(* variables and each action assigns them what the code leaves in them.    *)
(***************************************************************************)
EXTENDS Integers, Sequences, FiniteSets, TLC

VARIABLES
    shape,                   \* <<H, W>> of every mask of the run
    pc,                      \* the operation that ran last ("input": none yet)
    calls,                   \* how many times add_contour ran on labels_mask
    instance_in,             \* the instance mask as it was handed in
    class_in,                \* the class mask as it was handed in
    instance_mask,           \* the caller's instance array
    labels_mask,             \* the caller's class array
    original_instance_mask,  \* the instance mask before the user's edits
    old_instances,           \* the id list kept for original_instance_mask
    ret,                     \* the value the last operation returned
    first_ret,               \* the value the first add_contour call returned
    contours_mask,           \* the contour mask get_contours returned
    failed_ids,              \* the ids whose contour get_contours could not create
    original_class_mask,     \* the viewer's class mask before the user's edits
    active_mask_index,       \* the channel the viewer shows: 0 instance, 1 class
    app_calls,               \* the calls made to the application, in order
    viewer_open,             \* FALSE once the viewer and its window are closed
    n_edits,                 \* how many edits the user has made
    class_shown,             \* the class channel as the last handler left it
    trigger,                 \* what the last axis_changed found and ran
    track                    \* an object the user gave a class, and how far on

\* the state of the viewer window
viewer_vars == <<original_class_mask, active_mask_index, app_calls,
                 viewer_open, n_edits, class_shown, trigger, track>>

vars == <<shape, pc, calls, instance_in, class_in, instance_mask, labels_mask,
          original_instance_mask, old_instances, ret, first_ret, contours_mask,
          failed_ids, viewer_vars>>

(***************************************************************************)
(* Bounds.                                                                 *)
(***************************************************************************)
\* instance ids drawn are 0..MaxId
MaxId == 2
\* class values drawn are 0..MaxClass
MaxClass == 2
\* objects of the contour round trip live in a Win x Win window that is one
\* pixel away from every image border
Win == 2

\* shapes of the mask pairs drawn for the pair operations
PairShapes == {<<1, 3>>, <<2, 2>>}
\* shape of the three masks drawn for compute_new_labels_mask
LabelsShape == <<1, 3>>

(***************************************************************************)
(* numpy helpers.                                                          *)
(***************************************************************************)
Pixels(sh) == (0 .. sh[1] - 1) \X (0 .. sh[2] - 1)

\* a mask written as its rows, e.g. Grid(<< <<1,1,0>>, <<0,2,2>> >>)
Grid(rows) ==
    [p \in Pixels(<<Len(rows), Len(rows[1])>>) |-> rows[p[1] + 1][p[2] + 1]]

zeros_like(mask) == [p \in DOMAIN mask |-> 0]

\* np.where(mask == v): the pixels that hold v
Where(mask, v) == {p \in DOMAIN mask : mask[p] = v}

RECURSIVE SortedSeq(_)
SortedSeq(S) ==
    IF S = {} THEN <<>>
    ELSE LET m == CHOOSE x \in S : \A y \in S : x <= y
         IN <<m>> \o SortedSeq(S \ {m})

\* np.unique(mask[where]): the distinct values, ascending
np_unique(mask, where) == SortedSeq({mask[p] : p \in where})

\* the counts np.unique(..., return_counts=True) returns beside the values
np_unique_counts(mask, where) ==
    LET vals == np_unique(mask, where)
    IN [i \in 1 .. Len(vals) |-> Cardinality({p \in where : mask[p] = vals[i]})]

\* a last-maximum argmax (what a bug in the tie-break would give)
np_argmax_last(counts) ==
    CHOOSE i \in 1 .. Len(counts) :
        /\ \A j \in 1 .. Len(counts) : counts[j] <= counts[i]
        /\ \A j \in (i + 1) .. Len(counts) : counts[j] < counts[i]

\* np.argmax(counts): the index of the first maximum (1-based here)
np_argmax(counts) ==
    CHOOSE i \in 1 .. Len(counts) :
        /\ \A j \in 1 .. Len(counts) : counts[j] <= counts[i]
        /\ \A j \in 1 .. (i - 1) : counts[j] < counts[i]

\* the non-zero ids present in a mask
ObjectIds(mask) == {mask[p] : p \in DOMAIN mask} \ {0}

\* list membership: instance_id in old_instances
InList(x, list) == \E i \in 1 .. Len(list) : list[i] = x

(***************************************************************************)
(* Compute4Mask.get_unique_objects                                         *)
(***************************************************************************)
\* list(np.unique(active_mask)[1:]): the sorted distinct values without the
\* first of them
get_unique_objects(active_mask) ==
    LET u == np_unique(active_mask, DOMAIN active_mask)
    IN SubSeq(u, 2, Len(u))

(***************************************************************************)
(* Compute4Mask.add_contour                                                *)
(***************************************************************************)
\* a majority vote that returns argmax's index instead of the value there
\* (numpy's index is 0-based)
majority_class_index(labels, where) ==
    np_argmax(np_unique_counts(labels, where)) - 1

\* class_vals[np.argmax(counts)] over the pixels `where`
majority_class(labels, where) ==
    np_unique(labels, where)[np_argmax(np_unique_counts(labels, where))]

\* the loop body run for instance_ids[k], then the rest of the loop
RECURSIVE add_contour_loop(_, _, _, _)
add_contour_loop(labels, instance, instance_ids, k) ==
    IF k > Len(instance_ids) THEN labels
    ELSE LET where_instances == Where(instance, instance_ids[k])
             class_id == majority_class(labels, where_instances)
         IN add_contour_loop(
                [p \in DOMAIN labels |->
                    IF p \in where_instances THEN class_id ELSE labels[p]],
                instance, instance_ids, k + 1)

\* the array add_contour leaves in labels_mask, which is also what it returns
add_contour(labels, instance) ==
    add_contour_loop(labels, instance, get_unique_objects(instance), 1)

(***************************************************************************)
(* Compute4Mask.compute_new_instance_mask                                  *)
(***************************************************************************)
RECURSIVE compute_new_instance_mask_loop(_, _, _, _)
compute_new_instance_mask_loop(labels, instance, instance_ids, k) ==
    IF k > Len(instance_ids) THEN instance
    ELSE LET instance_id == instance_ids[k]
             unique_items_in_class_mask ==
                 np_unique(labels, Where(instance, instance_id))
         IN compute_new_instance_mask_loop(
                labels,
                IF /\ Len(unique_items_in_class_mask) = 1
                   /\ unique_items_in_class_mask[1] = 0
                THEN [p \in DOMAIN instance |->
                         IF instance[p] = instance_id THEN 0 ELSE instance[p]]
                ELSE instance,
                instance_ids, k + 1)

\* a version that hands back the class array it was given
compute_new_instance_mask_returns_labels(labels, instance) == labels

\* the array compute_new_instance_mask leaves in instance_mask, which is also
\* what it returns
compute_new_instance_mask(labels, instance) ==
    compute_new_instance_mask_loop(
        labels, instance, get_unique_objects(instance), 1)

(***************************************************************************)
(* Compute4Mask.compute_new_labels_mask                                    *)
(***************************************************************************)
\* the fallback vote taken at the object's edited pixels instead of its
\* original ones
old_class_vote_at_edited(labels, instance, original_instance, instance_id) ==
    majority_class(labels, Where(instance, instance_id))

\* old_class_id[np.argmax(counts)] over labels_mask[where_instance_orig]
old_class_vote(labels, instance, original_instance, instance_id) ==
    majority_class(labels, Where(original_instance, instance_id))

RECURSIVE compute_new_labels_mask_loop(_, _, _, _, _, _, _)
compute_new_labels_mask_loop(new_labels, labels, instance, original_instance, old, ids, k) ==
    IF k > Len(ids) THEN new_labels
    ELSE LET instance_id == ids[k]
             where_instance == Where(instance, instance_id)
             num_classes == np_unique(labels, where_instance)
             value ==
                 IF ~InList(instance_id, old) THEN instance_id
                 ELSE IF Len(num_classes) = 1 THEN num_classes[1]
                 ELSE old_class_vote(labels, instance, original_instance,
                                     instance_id)
         IN compute_new_labels_mask_loop(
                IF instance_id = 0 THEN new_labels
                ELSE [p \in DOMAIN new_labels |->
                         IF p \in where_instance THEN value ELSE new_labels[p]],
                labels, instance, original_instance, old, ids, k + 1)

compute_new_labels_mask(labels, instance, original_instance, old) ==
    compute_new_labels_mask_loop(
        zeros_like(labels), labels, instance, original_instance, old,
        np_unique(instance, DOMAIN instance), 1)

(***************************************************************************)
(* Compute4Mask.assert_consistent_labels                                   *)
(***************************************************************************)
\* two different pixels that touch by an edge or a corner
Adjacent8(p, q) ==
    /\ p # q
    /\ p[1] - q[1] \in {-1, 0, 1}
    /\ p[2] - q[2] \in {-1, 0, 1}

RECURSIVE GrowRegion(_, _)
GrowRegion(B, R) ==
    LET n == R \cup {q \in B : \E p \in R : Adjacent8(p, q)}
    IN IF n = R THEN R ELSE GrowRegion(B, n)

\* the connected components skimage.measure.label gives the True pixels B
\* (connectivity defaults to the array's dimension: 8-connectivity in 2D)
label(B) == {GrowRegion(B, {p}) : p \in B}

\* np.unique(label(mask == instance_id)).shape[0]: one label per component,
\* and the label 0 when some pixel is not of the object
label_unique_count(mask, instance_id) ==
    Cardinality(label(Where(mask, instance_id)))
    + (IF Where(mask, instance_id) # DOMAIN mask THEN 1 ELSE 0)

\* acc is <<user_annot_error, mask_mismatch_error, faulty_ids_annot,
\* faulty_ids_missmatch>>
RECURSIVE assert_consistent_labels_loop(_, _, _, _, _)
assert_consistent_labels_loop(acc, instance, class, instance_ids, k) ==
    IF k > Len(instance_ids) THEN acc
    ELSE LET instance_id == instance_ids[k]
             annot == label_unique_count(instance, instance_id) > 2
             mismatch ==
                 Len(np_unique(class, Where(instance, instance_id))) > 1
         IN assert_consistent_labels_loop(
                << acc[1] \/ annot,
                   acc[2] \/ mismatch,
                   IF annot THEN Append(acc[3], instance_id) ELSE acc[3],
                   IF mismatch THEN Append(acc[4], instance_id) ELSE acc[4] >>,
                instance, class, instance_ids, k + 1)

\* mask = (instance_mask, class_mask)
assert_consistent_labels(instance, class) ==
    assert_consistent_labels_loop(
        <<FALSE, FALSE, <<>>, <<>>>>, instance, class,
        get_unique_objects(instance), 1)

(***************************************************************************)
(* Compute4Mask.get_contours                                               *)
(*                                                                         *)
(* find_contours(single_obj_mask, None) runs marching squares at level 0.5 *)
(* over the 2x2 cells of the binary mask of one object; every contour      *)
(* point is the midpoint between an object pixel and a neighbour in the    *)
(* image that is not of the object. Coordinates are kept doubled here, so  *)
(* that the midpoints are integers: <<2r + 1, 2c>> is the point            *)
(* (r + 0.5, c).                                                           *)
(***************************************************************************)
\* the 2x2 cells of an image, named by their upper left pixel
Cells(sh) == (0 .. sh[1] - 2) \X (0 .. sh[2] - 2)

\* a segment: its place in the order marching squares emits segments (cells
\* row by row, a cell's segments in turn), and its two end points
Seg(sh, cell, i, a, b) ==
    [ord |-> (cell[1] * (sh[2] - 1) + cell[2]) * 2 + i, ends |-> {a, b}]

\* the segments marching squares emits for one cell (fully_connected='low':
\* in a saddle cell each object pixel is cut off on its own)
CellSegments(Obj, sh, cell) ==
    LET r == cell[1]
        c == cell[2]
        ul == IF <<r, c>> \in Obj THEN 1 ELSE 0
        ur == IF <<r, c + 1>> \in Obj THEN 2 ELSE 0
        ll == IF <<r + 1, c>> \in Obj THEN 4 ELSE 0
        lr == IF <<r + 1, c + 1>> \in Obj THEN 8 ELSE 0
        square_case == ul + ur + ll + lr
        top == <<2 * r, 2 * c + 1>>
        bottom == <<2 * r + 2, 2 * c + 1>>
        left == <<2 * r + 1, 2 * c>>
        right == <<2 * r + 1, 2 * c + 2>>
    IN CASE square_case \in {1, 14} -> {Seg(sh, cell, 0, top, left)}
         [] square_case \in {2, 13} -> {Seg(sh, cell, 0, right, top)}
         [] square_case \in {3, 12} -> {Seg(sh, cell, 0, right, left)}
         [] square_case \in {4, 11} -> {Seg(sh, cell, 0, left, bottom)}
         [] square_case \in {5, 10} -> {Seg(sh, cell, 0, top, bottom)}
         [] square_case = 6 -> {Seg(sh, cell, 0, right, top),
                                Seg(sh, cell, 1, left, bottom)}
         [] square_case \in {7, 8} -> {Seg(sh, cell, 0, right, bottom)}
         [] square_case = 9 -> {Seg(sh, cell, 0, top, left),
                                Seg(sh, cell, 1, bottom, right)}
         [] OTHER -> {}

\* every segment of the object's binary mask
Segments(Obj, sh) == UNION {CellSegments(Obj, sh, cell) : cell \in Cells(sh)}

\* the segments joined, end point to end point, to the segments K
RECURSIVE GrowContour(_, _)
GrowContour(segs, K) ==
    LET n == {s \in segs : \E t \in K : s.ends \cap t.ends # {}}
    IN IF n = K THEN K ELSE GrowContour(segs, n)

\* the contours find_contours returns, each as the set of its segments
find_contours(Obj, sh) ==
    LET segs == Segments(Obj, sh) IN {GrowContour(segs, {s}) : s \in segs}

\* a contour's place in the list find_contours returns: the contours are
\* ordered by the first segment created of each
ContourOrd(K) == CHOOSE o \in {s.ord : s \in K} : \A s \in K : o <= s.ord

\* contours[contour_sizes.index(max(contour_sizes))]: a contour of n segments
\* has n + 1 points; index() finds the first of the longest
LongestContour(contours) ==
    CHOOSE K \in contours :
        \A J \in contours :
            \/ Cardinality(J) < Cardinality(K)
            \/ Cardinality(J) = Cardinality(K) /\ ContourOrd(K) <= ContourOrd(J)

\* np.round of a doubled coordinate: halves go to the even neighbour
np_round(x2) ==
    IF x2 % 2 = 0 THEN x2 \div 2
    ELSE IF (x2 \div 2) % 2 = 0 THEN x2 \div 2 ELSE (x2 \div 2) + 1

\* .astype(int) of a doubled, non-negative coordinate: the fraction is cut
astype_int(x2) == x2 \div 2

\* the points of a contour
ContourPoints(K) == UNION {s.ends : s \in K}

\* polygon_perimeter(contour[:, 0], contour[:, 1], contour_mask.shape): the
\* points are rounded and joined by lines; consecutive contour points round
\* to the same pixel or to 8-neighbours, so the lines of a closed contour
\* cover the rounded points and nothing else. truncated: the contour went
\* through .astype(int) first (the branch taken for more than one contour).
polygon_perimeter(K, truncated) ==
    {IF truncated THEN <<astype_int(pt[1]), astype_int(pt[2])>>
                  ELSE <<np_round(pt[1]), np_round(pt[2])>> : pt \in ContourPoints(K)}

\* the try block for one object: whether a contour was drawn, and the pixels
\* (rr, cc) it covers. No contour at all (the object fills the image, or the
\* image is smaller than 2x2) raises, and the except clause skips the object.
TraceObject(instance, instance_id) ==
    LET sh == <<Cardinality({p[1] : p \in DOMAIN instance}),
                Cardinality({p[2] : p \in DOMAIN instance})>>
        contours == find_contours(Where(instance, instance_id), sh)
    IN IF contours = {} THEN [drawn |-> FALSE, pixels |-> {}]
       ELSE IF Cardinality(contours) > 1
            THEN [drawn |-> TRUE,
                  pixels |-> polygon_perimeter(LongestContour(contours), TRUE)]
       ELSE [drawn |-> TRUE,
             pixels |-> polygon_perimeter(CHOOSE K \in contours : TRUE, FALSE)]

\* the loop with the try block around it instead of inside it: the first
\* object that raises ends the call
RECURSIVE get_contours_loop_stops(_, _, _, _, _)
get_contours_loop_stops(contour_mask, instance, instance_ids, k, raised) ==
    IF k > Len(instance_ids) THEN contour_mask
    ELSE LET instance_id == instance_ids[k]
             t == TraceObject(instance, instance_id)
         IN IF instance_id \in raised \/ ~t.drawn THEN contour_mask
            ELSE get_contours_loop_stops(
                     [p \in DOMAIN contour_mask |->
                         IF p \in t.pixels THEN instance_id ELSE contour_mask[p]],
                     instance, instance_ids, k + 1, raised)

\* the loop of get_contours; raised holds the ids for which the try block
\* raises for a reason of the libraries' own
RECURSIVE get_contours_loop(_, _, _, _, _)
get_contours_loop(contour_mask, instance, instance_ids, k, raised) ==
    IF k > Len(instance_ids) THEN contour_mask
    ELSE LET instance_id == instance_ids[k]
             t == TraceObject(instance, instance_id)
         IN get_contours_loop(
                IF instance_id \in raised \/ ~t.drawn THEN contour_mask
                ELSE [p \in DOMAIN contour_mask |->
                         IF p \in t.pixels THEN instance_id ELSE contour_mask[p]],
                instance, instance_ids, k + 1, raised)

get_contours(instance, raised) ==
    get_contours_loop(zeros_like(instance), instance,
                      get_unique_objects(instance), 1, raised)

\* the ids of a call for which "Could not create contour" is printed
CouldNotCreate(instance, raised) ==
    {id \in ObjectIds(instance) :
        /\ InList(id, get_unique_objects(instance))
        /\ (id \in raised \/ ~TraceObject(instance, id).drawn)}

(***************************************************************************)
(* The pair operations, each applied to a mask pair handed in.             *)
(***************************************************************************)
\* the mask pairs of the validator's documented examples
PairExamples ==
    { << Grid(<< <<1, 1, 0>>, <<0, 2, 2>> >>), Grid(<< <<5, 5, 0>>, <<0, 7, 7>> >>) >>,
      << Grid(<< <<1, 0, 1>>, <<0, 0, 0>> >>), Grid(<< <<4, 0, 4>>, <<0, 0, 0>> >>) >>,
      << Grid(<< <<1, 1>>, <<1, 1>> >>), Grid(<< <<3, 3>>, <<3, 9>> >>) >> }

\* no axis_changed has run yet
NoTrigger == [instance_edited |-> FALSE, class_edited |-> FALSE, ran |-> "none"]

\* no object is followed
NoTrack == [stage |-> 0, ids |-> {}, k |-> 0]

\* a run of the operations alone: no viewer window is open
NoViewer ==
    /\ original_class_mask = class_in
    /\ active_mask_index = 0
    /\ app_calls = <<>>
    /\ viewer_open = FALSE
    /\ n_edits = 0
    /\ class_shown = class_in
    /\ trigger = NoTrigger
    /\ track = NoTrack

\* what holds of every run before its first operation
Fresh ==
    /\ pc = "input"
    /\ calls = 0
    /\ instance_mask = instance_in
    /\ labels_mask = class_in
    /\ ret = <<>>
    /\ first_ret = <<>>
    /\ contours_mask = zeros_like(instance_in)
    /\ failed_ids = {}
    /\ NoViewer

InitPair ==
    /\ \/ /\ shape \in PairShapes
          /\ instance_in \in [Pixels(shape) -> 0 .. MaxId]
          /\ class_in \in [Pixels(shape) -> 0 .. MaxClass]
       \/ \E e \in PairExamples :
             /\ instance_in = e[1]
             /\ class_in = e[2]
             /\ shape = <<Cardinality({p[1] : p \in DOMAIN e[1]}),
                          Cardinality({p[2] : p \in DOMAIN e[1]})>>
    /\ original_instance_mask = instance_in
    /\ old_instances = get_unique_objects(instance_in)
    /\ Fresh

GetUniqueObjects ==
    /\ pc = "input"
    /\ pc' = "get_unique_objects"
    /\ ret' = get_unique_objects(instance_mask)
    /\ UNCHANGED <<shape, calls, instance_in, class_in, instance_mask,
                   labels_mask, original_instance_mask, old_instances,
                   first_ret, contours_mask, failed_ids>>
    /\ UNCHANGED viewer_vars

\* add_contour writes into labels_mask and returns it; it runs on the pair as
\* handed in, on its own result, or after the contour pixels were zeroed
AddContour ==
    /\ pc \in {"input", "add_contour", "remove_border"}
    /\ calls < 2
    /\ pc' = IF pc = "remove_border" THEN "round_trip" ELSE "add_contour"
    /\ calls' = calls + 1
    /\ labels_mask' = add_contour(labels_mask, instance_mask)
    /\ ret' = labels_mask'
    /\ first_ret' = IF calls = 0 THEN labels_mask' ELSE first_ret
    /\ UNCHANGED <<shape, instance_in, class_in, instance_mask,
                   original_instance_mask, old_instances, contours_mask,
                   failed_ids>>
    /\ UNCHANGED viewer_vars

\* compute_new_instance_mask writes into instance_mask and returns it
ComputeNewInstanceMask ==
    /\ pc = "input"
    /\ pc' = "compute_new_instance_mask"
    /\ instance_mask' = compute_new_instance_mask(labels_mask, instance_mask)
    /\ ret' = instance_mask'
    /\ UNCHANGED <<shape, calls, instance_in, class_in, labels_mask,
                   original_instance_mask, old_instances, first_ret,
                   contours_mask, failed_ids>>
    /\ UNCHANGED viewer_vars

AssertConsistentLabels ==
    /\ pc = "input"
    /\ pc' = "assert_consistent_labels"
    /\ ret' = assert_consistent_labels(instance_mask, labels_mask)
    /\ UNCHANGED <<shape, calls, instance_in, class_in, instance_mask,
                   labels_mask, original_instance_mask, old_instances,
                   first_ret, contours_mask, failed_ids>>
    /\ UNCHANGED viewer_vars

NextPair ==
    \/ GetUniqueObjects
    \/ AddContour
    \/ ComputeNewInstanceMask
    \/ AssertConsistentLabels

SpecPair == InitPair /\ [][NextPair]_vars

(***************************************************************************)
(* Vocabulary of the properties.                                           *)
(***************************************************************************)
\* how many of the pixels P hold v in mask
PixelCount(mask, P, v) == Cardinality({p \in P : mask[p] = v})

\* v is the most frequent value of mask over P, the lowest of the most
\* frequent ones
IsLowestMajority(v, mask, P) ==
    /\ \E p \in P : mask[p] = v
    /\ \A p \in P :
          \/ PixelCount(mask, P, mask[p]) < PixelCount(mask, P, v)
          \/ /\ PixelCount(mask, P, mask[p]) = PixelCount(mask, P, v)
             /\ v <= mask[p]

(***************************************************************************)
(* Properties of the pair operations (checked under SpecPair).             *)
(***************************************************************************)
\* C1: get_unique_objects(mask) is exactly the distinct non-zero values of
\* the mask in ascending order, for every mask, one without a background
\* pixel included: never 0, no present id left out, empty for all zeros.
C1_UniqueObjectsAreTheNonZeroValues ==
    pc = "get_unique_objects" => ret = SortedSeq(ObjectIds(instance_in))

\* C2: after add_contour(C, I), every non-zero id present in I (the smallest
\* one of a mask without background included) has exactly one class value
\* over its pixels.
C2_EveryObjectUniformAfterAddContour ==
    pc = "add_contour" =>
        \A id \in ObjectIds(instance_in) :
            Cardinality({labels_mask[p] : p \in Where(instance_in, id)}) = 1

\* C3: add_contour is idempotent in its class mask: a second call with the
\* same instance mask returns, pixel for pixel, what the first call returned.
C3_AddContourIdempotent ==
    (pc = "add_contour" /\ calls = 2) => ret = first_ret

\* C3 witness: add_contour ran twice and its first call rewrote the class
\* mask of an object that held several class values.
C3_Witness ==
    /\ pc = "add_contour"
    /\ calls = 2
    /\ first_ret # class_in
    /\ \E id \in ObjectIds(instance_in) :
          /\ InList(id, get_unique_objects(instance_in))
          /\ Cardinality({class_in[p] : p \in Where(instance_in, id)}) > 1

\* C4: every pixel of an object id add_contour processes gets the class value
\* with the highest pixel count among the values at the object's pixels (0
\* counted like any other), the lowest value when several tie.
C4_MajorityWithLowestTieBreak ==
    (pc = "add_contour" /\ calls = 1) =>
        \A k \in 1 .. Len(get_unique_objects(instance_in)) :
            LET P == Where(instance_in, get_unique_objects(instance_in)[k])
            IN \A p \in P : IsLowestMajority(ret[p], class_in, P)

\* C4 witness: add_contour ran on an object whose pixels hold background and
\* another class value equally often, and wrote the lower of the two.
C4_Witness ==
    /\ pc = "add_contour"
    /\ calls = 1
    /\ \E k \in 1 .. Len(get_unique_objects(instance_in)) :
          LET P == Where(instance_in, get_unique_objects(instance_in)[k])
          IN \E p, q \in P :
                /\ class_in[p] = 0
                /\ class_in[q] # 0
                /\ PixelCount(class_in, P, 0) = PixelCount(class_in, P, class_in[q])
                /\ \A r \in P : ret[r] = 0

\* C5: deletion monotonicity: the non-zero ids of
\* compute_new_instance_mask(editedC, I) are a subset of the non-zero ids of
\* I; no id is introduced.
C5_DeletionMonotone ==
    pc = "compute_new_instance_mask" =>
        ObjectIds(ret) \subseteq ObjectIds(instance_in)

\* C5 witness: compute_new_instance_mask deleted one object and kept another.
C5_Witness ==
    /\ pc = "compute_new_instance_mask"
    /\ ObjectIds(ret) # {}
    /\ ObjectIds(ret) # ObjectIds(instance_in)

\* C6: compute_new_instance_mask deletes exactly the objects recoloured to
\* background entirely: every non-zero id present whose pixels are all 0 in
\* the class mask is 0 everywhere in the result, every other id keeps its
\* pixel set, and background stays background.
C6_DeletesExactlyTheRecolouredObjects ==
    pc = "compute_new_instance_mask" =>
        /\ \A id \in ObjectIds(instance_in) :
              IF \A p \in Where(instance_in, id) : class_in[p] = 0
              THEN \A p \in Where(instance_in, id) : ret[p] = 0
              ELSE Where(ret, id) = Where(instance_in, id)
        /\ \A p \in Where(instance_in, 0) : ret[p] = 0

\* C8: faulty_annotation_ids is exactly the ascending list of the non-zero
\* ids whose pixels split into more than one 8-connected component, and
\* annotation_error is True exactly when that list is not empty.
C8_ConnectivityCheckExact ==
    pc = "assert_consistent_labels" =>
        /\ ret[3] = SortedSeq({id \in ObjectIds(instance_in) :
                                  Cardinality(label(Where(instance_in, id))) > 1})
        /\ ret[1] = (ret[3] # <<>>)

\* C9: faulty_mismatch_ids is exactly the ascending list of the non-zero ids
\* whose pixels hold more than one class value, and mismatch_error is True
\* exactly when that list is not empty.
C9_UniformityCheckExact ==
    pc = "assert_consistent_labels" =>
        /\ ret[4] = SortedSeq({id \in ObjectIds(instance_in) :
                                  Cardinality({class_in[p] : p \in Where(instance_in, id)}) > 1})
        /\ ret[2] = (ret[4] # <<>>)

(***************************************************************************)
(* compute_new_labels_mask applied to a prior pair and an edited instance  *)
(* mask.                                                                   *)
(***************************************************************************)
\* the documented example: object 1 with class 4 grew by one pixel
LabelsExample ==
    [ original |-> Grid(<< <<1, 1>>, <<0, 0>> >>),
      labels |-> Grid(<< <<4, 4>>, <<0, 0>> >>),
      instance |-> Grid(<< <<1, 1>>, <<1, 0>> >>),
      old |-> <<1>> ]

\* labels_mask is the prior class mask, instance_mask the edited instance
\* mask; old_instances is the registry kept for original_instance_mask
\* (get_unique_objects of it) or the list of every id in it
InitLabels ==
    /\ \/ /\ shape = LabelsShape
          /\ original_instance_mask \in [Pixels(shape) -> 0 .. MaxId]
          /\ class_in \in [Pixels(shape) -> 0 .. MaxClass]
          /\ instance_in \in [Pixels(shape) -> 0 .. MaxId]
          /\ old_instances \in {get_unique_objects(original_instance_mask),
                                SortedSeq(ObjectIds(original_instance_mask))}
       \/ /\ shape = <<2, 2>>
          /\ original_instance_mask = LabelsExample.original
          /\ class_in = LabelsExample.labels
          /\ instance_in = LabelsExample.instance
          /\ old_instances = LabelsExample.old
    /\ Fresh

\* compute_new_labels_mask building its result in labels_mask instead of in
\* a fresh np.zeros_like array
ComputeNewLabelsMask_in_place ==
    /\ pc = "input"
    /\ pc' = "compute_new_labels_mask"
    /\ labels_mask' = compute_new_labels_mask(labels_mask, instance_mask,
                                              original_instance_mask, old_instances)
    /\ ret' = labels_mask'
    /\ UNCHANGED <<shape, calls, instance_in, class_in, instance_mask,
                   original_instance_mask, old_instances, first_ret,
                   contours_mask, failed_ids>>
    /\ UNCHANGED viewer_vars

ComputeNewLabelsMask ==
    /\ pc = "input"
    /\ pc' = "compute_new_labels_mask"
    /\ ret' = compute_new_labels_mask(labels_mask, instance_mask,
                                      original_instance_mask, old_instances)
    /\ UNCHANGED <<shape, calls, instance_in, class_in, instance_mask,
                   labels_mask, original_instance_mask, old_instances,
                   first_ret, contours_mask, failed_ids>>
    /\ UNCHANGED viewer_vars

NextLabels == ComputeNewLabelsMask

SpecLabels == InitLabels /\ [][NextLabels]_vars

\* C7: compute_new_labels_mask returns 0 wherever the edited instance mask is
\* 0 and, on the pixels of every non-zero id of the edited instance mask: the
\* id itself when the id is not in known_ids; the one class value the prior
\* class mask holds there when it holds exactly one; otherwise the majority
\* class (lowest on ties) of the prior class mask over the id's pixels in the
\* prior instance mask. The object that grew from [[1,1],[0,0]] with class 4
\* to [[1,1],[1,0]] gets class 4 on its three pixels.
C7_NewLabelsMask ==
    pc = "compute_new_labels_mask" =>
        /\ \A p \in Where(instance_in, 0) : ret[p] = 0
        /\ \A id \in ObjectIds(instance_in) :
              \A p \in Where(instance_in, id) :
                 IF ~InList(id, old_instances) THEN ret[p] = id
                 ELSE IF Cardinality({class_in[q] : q \in Where(instance_in, id)}) = 1
                      THEN ret[p] = class_in[p]
                 ELSE IsLowestMajority(ret[p], class_in,
                                       Where(original_instance_mask, id))
        /\ ( /\ original_instance_mask = LabelsExample.original
             /\ class_in = LabelsExample.labels
             /\ instance_in = LabelsExample.instance
             /\ old_instances = LabelsExample.old )
           => ret = Grid(<< <<4, 4>>, <<4, 0>> >>)

\* C7 witness: compute_new_labels_mask ran on a pair with a newly drawn id
\* and a known id that grew into pixels of another class, where the class
\* written is the majority at the original pixels and not at the edited ones.
C7_Witness ==
    /\ pc = "compute_new_labels_mask"
    /\ \E id \in ObjectIds(instance_in) : ~InList(id, old_instances)
    /\ \E id \in ObjectIds(instance_in) :
          /\ InList(id, old_instances)
          /\ Cardinality({class_in[q] : q \in Where(instance_in, id)}) > 1
          /\ \A p \in Where(instance_in, id) :
                ~IsLowestMajority(ret[p], class_in, Where(instance_in, id))

\* C7 witness of the documented example: the grown object holds class 4.
C7_ExampleReached ==
    /\ pc = "compute_new_labels_mask"
    /\ instance_in = LabelsExample.instance
    /\ ret = Grid(<< <<4, 4>>, <<4, 0>> >>)

(***************************************************************************)
(* The contour round trip of the viewer: NapariWindow.__init__ computes    *)
(* get_contours of the instance channel and zeroes the class channel at    *)
(* the contour pixels; add_contour puts the class back (axis_changed,      *)
(* update_instance_mask and both save buttons call it).                    *)
(*                                                                         *)
(* The objects drawn lie inside a window one pixel away from every image   *)
(* border, so every contour traced is closed.                              *)
(***************************************************************************)
ContourShape == <<Win + 2, Win + 2>>

Window == (1 .. Win) \X (1 .. Win)

\* the pairs in which every object has a single, non-zero class value
InitContour ==
    /\ shape = ContourShape
    /\ \E w \in [Window -> 0 .. MaxId], class_of \in [1 .. MaxId -> 1 .. MaxClass] :
          /\ instance_in = [p \in Pixels(shape) |-> IF p \in Window THEN w[p] ELSE 0]
          /\ class_in = [p \in Pixels(shape) |->
                            IF p \in Window /\ w[p] # 0 THEN class_of[w[p]] ELSE 0]
    /\ original_instance_mask = instance_in
    /\ old_instances = get_unique_objects(instance_in)
    /\ Fresh

\* the masks whose contours find_contours closes: no object pixel lies on an
\* image border; of an image with a side below 2 no contour is traced at all
ContoursClosed(instance) ==
    LET sh == <<Cardinality({p[1] : p \in DOMAIN instance}),
                Cardinality({p[2] : p \in DOMAIN instance})>>
    IN \/ sh[1] < 2
       \/ sh[2] < 2
       \/ \A p \in DOMAIN instance :
             instance[p] # 0 => /\ p[1] \in 1 .. sh[1] - 2
                                /\ p[2] \in 1 .. sh[2] - 2

\* get_contours(instance_mask); the try block of an object may raise inside
\* the libraries, which the bare except turns into a skipped object
GetContours ==
    /\ pc = "input"
    /\ ContoursClosed(instance_mask)
    /\ pc' = "get_contours"
    /\ \E raised \in SUBSET ObjectIds(instance_mask) :
          /\ contours_mask' = get_contours(instance_mask, raised)
          /\ failed_ids' = CouldNotCreate(instance_mask, raised)
    /\ ret' = contours_mask'
    /\ UNCHANGED <<shape, calls, instance_in, class_in, instance_mask,
                   labels_mask, original_instance_mask, old_instances,
                   first_ret>>
    /\ UNCHANGED viewer_vars

\* data[1][contours_mask != 0] = 0 (napari_window.py line 62)
RemoveBorder ==
    /\ pc = "get_contours"
    /\ pc' = "remove_border"
    /\ labels_mask' = [p \in DOMAIN labels_mask |->
                          IF contours_mask[p] # 0 THEN 0 ELSE labels_mask[p]]
    /\ UNCHANGED <<shape, calls, instance_in, class_in, instance_mask,
                   original_instance_mask, old_instances, ret, first_ret,
                   contours_mask, failed_ids>>
    /\ UNCHANGED viewer_vars

NextContour ==
    \/ GetContours
    \/ RemoveBorder
    \/ AddContour

SpecContour == InitContour /\ [][NextContour]_vars

\* C10: contour round trip: from a pair in which every object has a single
\* class value, get_contours, zeroing the class channel at the contour
\* pixels, then add_contour with the same instance mask gives every object,
\* whatever its size or shape, its original class value on all its pixels.
C10_RoundTripRestoresClass ==
    pc = "round_trip" =>
        \A id \in ObjectIds(instance_in) :
            \A p \in Where(instance_in, id) : labels_mask[p] = class_in[p]

(***************************************************************************)
(* get_contours alone, on the instance masks of a 4x4 image whose objects  *)
(* lie in the 2x2 window off the border: objects of one to four pixels,    *)
(* edge-connected or joined at a corner only, alone or next to each other. *)
(***************************************************************************)
SquareShape == <<4, 4>>

SquareWindow == (1 .. 2) \X (1 .. 2)

InitTrace ==
    /\ shape = SquareShape
    /\ \E w \in [SquareWindow -> 0 .. MaxId] :
          instance_in = [p \in Pixels(shape) |-> IF p \in SquareWindow THEN w[p] ELSE 0]
    /\ class_in = zeros_like(instance_in)
    /\ original_instance_mask = instance_in
    /\ old_instances = get_unique_objects(instance_in)
    /\ Fresh

NextTrace == GetContours

SpecTrace == InitTrace /\ [][NextTrace]_vars

(***************************************************************************)
(* The six operations of Compute4Mask side by side, each applied to the    *)
(* caller's arrays: instance_in and class_in keep the values the arrays    *)
(* held before the call, instance_mask and labels_mask are the arrays      *)
(* after it.                                                               *)
(***************************************************************************)
InitEngine ==
    \/ InitPair
    \/ InitTrace

NextEngine ==
    \/ GetUniqueObjects
    \/ AddContour
    \/ ComputeNewInstanceMask
    \/ ComputeNewLabelsMask
    \/ AssertConsistentLabels
    \/ GetContours

SpecEngine == InitEngine /\ [][NextEngine]_vars

EngineOps ==
    {"get_unique_objects", "add_contour", "compute_new_instance_mask",
     "compute_new_labels_mask", "assert_consistent_labels", "get_contours"}

\* C13 as stated: after add_contour, compute_new_instance_mask,
\* compute_new_labels_mask, get_contours, get_unique_objects or
\* assert_consistent_labels, every input grid holds the values it held
\* before the call.
C13_EveryOperationPure ==
    pc \in EngineOps =>
        /\ instance_mask = instance_in
        /\ labels_mask = class_in

\* C13 amended: get_unique_objects, get_contours, compute_new_labels_mask and
\* assert_consistent_labels leave every input grid as it was; add_contour
\* leaves the instance mask as it was and writes its result into the class
\* mask handed in, which it returns; compute_new_instance_mask leaves the
\* class mask as it was and writes its result into the instance mask handed
\* in, which it returns.
C13_PureButForTheArrayReturned ==
    /\ pc \in EngineOps \ {"add_contour", "compute_new_instance_mask"} =>
          /\ instance_mask = instance_in
          /\ labels_mask = class_in
    /\ pc = "add_contour" =>
          /\ instance_mask = instance_in
          /\ labels_mask = ret
    /\ pc = "compute_new_instance_mask" =>
          /\ labels_mask = class_in
          /\ instance_mask = ret

\* C13 witness: add_contour ran once and the class mask handed in no longer
\* holds the values it held before the call.
C13_Witness ==
    /\ pc = "add_contour"
    /\ calls = 1
    /\ labels_mask # class_in
    /\ labels_mask = ret

\* C13 witness of the other writing operation.
C13_InstanceMaskWritten ==
    /\ pc = "compute_new_instance_mask"
    /\ instance_mask # instance_in
    /\ instance_mask = ret

\* the contour pixels of every object of a call that was drawn, the highest
\* id last
ContourWrites(instance, failed) ==
    [p \in DOMAIN instance |->
        LET over == {id \in ObjectIds(instance) :
                        /\ InList(id, get_unique_objects(instance))
                        /\ id \notin failed
                        /\ p \in TraceObject(instance, id).pixels}
        IN IF over = {} THEN 0 ELSE CHOOSE id \in over : \A o \in over : o <= id]

\* C14: whatever objects get_contours could not trace, the call returns a
\* contour mask; an object that failed contributes no pixel to it, and every
\* object that was traced has its contour pixels written with its own id, in
\* id order, as it has when no object fails.
C14_FailureContained ==
    pc = "get_contours" =>
        /\ DOMAIN ret = DOMAIN instance_in
        /\ ret = ContourWrites(instance_in, failed_ids)
        /\ \A id \in ObjectIds(instance_in) \ failed_ids :
              InList(id, get_unique_objects(instance_in)) =>
                 \A p \in TraceObject(instance_in, id).pixels :
                    ret[p] >= id /\ ret[p] \notin failed_ids

\* C14 witness: the first object of a call failed and a later one is drawn.
C14_Witness ==
    /\ pc = "get_contours"
    /\ \E f \in failed_ids : \E id \in ObjectIds(instance_in) \ failed_ids :
          /\ f < id
          /\ \E p \in DOMAIN ret : ret[p] = id

(***************************************************************************)
(* The viewer window (NapariWindow) with one segmentation layer on show.   *)
(* instance_mask and labels_mask are the two channels of the layer's data  *)
(* (layer.data[0], layer.data[1]), instance_in and class_in the pair as    *)
(* loaded from the segmentation file, old_instances the registry           *)
(* self.instances. Every handler is one action. The user paints and erases *)
(* single pixels of the instance channel and fills regions of the class    *)
(* channel, the tools the viewer leaves enabled on each (lines 137-158).   *)
(*                                                                         *)
(* Two families of images: the windowed square images of the contour round *)
(* trip, and one-row images, of which get_contours traces nothing, so that *)
(* objects may lie anywhere, the image may have no background, and the     *)
(* class channel is shown as loaded.                                       *)
(***************************************************************************)
\* edits made in one session of the viewer: MaxEdits in a one-row image, one
\* less in a square image
MaxEdits == 2

EditBudget(sh) == IF sh[1] = 1 THEN MaxEdits ELSE MaxEdits - 1

RowShape == <<1, 3>>

Paths == {"eval_data_path", "inprogr_data_path", "train_data_path"}

\* where the user paints: inside the window of a square image, anywhere in a
\* one-row image
EditPixels(sh) == IF sh = RowShape THEN Pixels(sh) ELSE Window

\* vis_labels_mask[contours_mask != 0] = 0
without_contours(labels, contours) ==
    [p \in DOMAIN labels |-> IF contours[p] # 0 THEN 0 ELSE labels[p]]

\* .astype(bool)
astype_bool(mask) == [p \in DOMAIN mask |-> mask[p] # 0]

\* the test of axis_changed on the class channel: the class mask with its
\* contours put back against the class mask kept, both as booleans
class_mask_changed(class_mask_with_contours, original) ==
    astype_bool(class_mask_with_contours) # astype_bool(original)

\* update_labels_mask(instance_mask): what it leaves in the window's fields
\* and in the class channel of the layer
update_labels_mask(instance, original_class, original_instance, instances) ==
    LET new_class == compute_new_labels_mask(original_class, instance,
                                             original_instance, instances)
        contours == get_contours(instance, {})
    IN [ original_class_mask |-> new_class,
         original_instance_mask |-> instance,
         instances |-> get_unique_objects(instance),
         contours_mask |-> contours,
         data1 |-> without_contours(new_class, contours) ]

\* update_instance_mask(instance_mask, labels_mask): what it leaves in the
\* window's fields and in the instance channel of the layer
update_instance_mask(instance, labels) ==
    LET with_contour == add_contour(labels, instance)
        new_instance == compute_new_instance_mask(with_contour, instance)
    IN [ original_instance_mask |-> new_instance,
         instances |-> get_unique_objects(new_instance),
         original_class_mask |-> with_contour,
         data0 |-> new_instance ]

\* the fill tool of the viewer: the pixels joined to p by edge-sharing steps
\* over pixels of p's value
Adjacent4(p, q) ==
    \/ p[1] = q[1] /\ (p[2] = q[2] + 1 \/ q[2] = p[2] + 1)
    \/ p[2] = q[2] /\ (p[1] = q[1] + 1 \/ q[1] = p[1] + 1)

RECURSIVE GrowFill(_, _)
GrowFill(region, same) ==
    LET more == {q \in same \ region : \E p \in region : Adjacent4(p, q)}
    IN IF more = {} THEN region ELSE GrowFill(region \cup more, same)

FillRegion(mask, p) == GrowFill({p}, Where(mask, mask[p]))

\* the objects of the instance channel whose every pixel lies in region
WholeObjects(instance, region) ==
    {id \in ObjectIds(instance) : Where(instance, id) \subseteq region}

\* the pixels of the objects followed
TrackedPixels(instance) == {p \in DOMAIN instance : instance[p] \in track.ids}

\* the calls made to the application
MoveImages(path) == [call |-> "move_images", path |-> path, seg |-> <<>>]

SaveImage(path, seg) == [call |-> "save_image", path |-> path, seg |-> seg]

DeleteImages == [call |-> "delete_images", path |-> "", seg |-> <<>>]

\* NapariWindow.__init__ on the pair (instance_in, class_in) of the
\* segmentation file: the fields of the window and the data of the layer
Opened ==
    /\ pc = "init"
    /\ calls = 0
    /\ ret = <<>>
    /\ first_ret = <<>>
    /\ active_mask_index = 0
    /\ instance_mask = instance_in
    /\ original_instance_mask = instance_in
    /\ original_class_mask = class_in
    /\ old_instances = get_unique_objects(instance_in)
    /\ contours_mask = get_contours(instance_in, {})
    /\ failed_ids = CouldNotCreate(instance_in, {})
    /\ labels_mask = without_contours(class_in, contours_mask)
    /\ class_shown = labels_mask
    /\ app_calls = <<>>
    /\ viewer_open = TRUE
    /\ n_edits = 0
    /\ trigger = NoTrigger
    /\ track = NoTrack

\* the viewer opened on a pair in which every object has a single, non-zero
\* class value
InitViewer ==
    /\ \/ /\ shape = ContourShape
          /\ \E w \in [Window -> 0 .. MaxId], class_of \in [1 .. MaxId -> 1 .. MaxClass] :
                /\ instance_in = [p \in Pixels(shape) |-> IF p \in Window THEN w[p] ELSE 0]
                /\ class_in = [p \in Pixels(shape) |->
                                  IF p \in Window /\ w[p] # 0 THEN class_of[w[p]] ELSE 0]
       \/ /\ shape = RowShape
          /\ \E w \in [Pixels(RowShape) -> 0 .. MaxId], class_of \in [1 .. MaxId -> 1 .. MaxClass] :
                /\ instance_in = w
                /\ class_in = [p \in Pixels(shape) |->
                                  IF w[p] # 0 THEN class_of[w[p]] ELSE 0]
    /\ Opened

\* the user paints (v > 0) or erases (v = 0) one pixel of the instance channel
PaintInstance ==
    /\ viewer_open
    /\ active_mask_index = 0
    /\ n_edits < EditBudget(shape)
    /\ \E p \in EditPixels(shape), v \in 0 .. MaxId :
          /\ instance_mask[p] # v
          /\ instance_mask' = [instance_mask EXCEPT ![p] = v]
          /\ track' = IF /\ track.stage \in {2, 3}
                         /\ p \notin TrackedPixels(instance_mask)
                         /\ v \notin track.ids
                      THEN [track EXCEPT !.stage = 3]
                      ELSE NoTrack
    /\ n_edits' = n_edits + 1
    /\ pc' = "paint"
    /\ UNCHANGED <<shape, calls, instance_in, class_in, labels_mask,
                   original_instance_mask, old_instances, ret, first_ret,
                   contours_mask, failed_ids, original_class_mask,
                   active_mask_index, app_calls, viewer_open, class_shown,
                   trigger>>

\* the user fills the region of the class channel under the cursor with
\* class v
FillClass ==
    /\ viewer_open
    /\ active_mask_index = 1
    /\ n_edits < EditBudget(shape)
    /\ \E p \in Pixels(shape), v \in 0 .. MaxClass :
          LET region == FillRegion(labels_mask, p)
              whole == WholeObjects(instance_mask, region)
          IN /\ labels_mask[p] # v
             /\ labels_mask' = [q \in DOMAIN labels_mask |->
                                   IF q \in region THEN v ELSE labels_mask[q]]
             /\ track' = IF v # 0 /\ whole # {}
                         THEN [stage |-> 1, ids |-> whole, k |-> v]
                         ELSE IF region \cap TrackedPixels(instance_mask) = {}
                              THEN track
                         ELSE NoTrack
    /\ n_edits' = n_edits + 1
    /\ pc' = "fill"
    /\ UNCHANGED <<shape, calls, instance_in, class_in, instance_mask,
                   original_instance_mask, old_instances, ret, first_ret,
                   contours_mask, failed_ids, original_class_mask,
                   active_mask_index, app_calls, viewer_open, class_shown,
                   trigger>>

\* axis_changed: the user moved the viewer to the other channel
AxisChanged ==
    /\ viewer_open
    /\ pc' = "axis_changed"
    /\ active_mask_index' = 1 - active_mask_index
    /\ IF active_mask_index' = 0
       THEN \E class_mask_with_contours \in {add_contour(labels_mask, instance_mask)} :
               IF class_mask_changed(class_mask_with_contours, original_class_mask)
               THEN \E u \in {update_instance_mask(instance_mask,
                                                   class_mask_with_contours)} :
                       /\ trigger' = [instance_edited |->
                                         instance_mask # original_instance_mask,
                                      class_edited |-> labels_mask # class_shown,
                                      ran |-> "update_instance_mask"]
                       /\ original_instance_mask' = u.original_instance_mask
                       /\ old_instances' = u.instances
                       /\ original_class_mask' = u.original_class_mask
                       /\ instance_mask' = u.data0
                       /\ UNCHANGED <<labels_mask, contours_mask, failed_ids>>
               ELSE /\ trigger' = [instance_edited |->
                                      instance_mask # original_instance_mask,
                                   class_edited |-> labels_mask # class_shown,
                                   ran |-> "none"]
                    /\ UNCHANGED <<original_instance_mask, old_instances,
                                   original_class_mask, instance_mask,
                                   labels_mask, contours_mask, failed_ids>>
       ELSE IF instance_mask # original_instance_mask
            THEN \E u \in {update_labels_mask(instance_mask, original_class_mask,
                                              original_instance_mask,
                                              old_instances)} :
                    /\ trigger' = [instance_edited |-> TRUE,
                                   class_edited |-> labels_mask # class_shown,
                                   ran |-> "update_labels_mask"]
                    /\ original_class_mask' = u.original_class_mask
                    /\ original_instance_mask' = u.original_instance_mask
                    /\ old_instances' = u.instances
                    /\ contours_mask' = u.contours_mask
                    /\ failed_ids' = CouldNotCreate(instance_mask, {})
                    /\ labels_mask' = u.data1
                    /\ UNCHANGED instance_mask
            ELSE /\ trigger' = [instance_edited |-> FALSE,
                                class_edited |-> labels_mask # class_shown,
                                ran |-> "none"]
                 /\ UNCHANGED <<original_instance_mask, old_instances,
                                original_class_mask, instance_mask, labels_mask,
                                contours_mask, failed_ids>>
    /\ class_shown' = labels_mask'
    /\ track' = IF track.stage = 1 /\ active_mask_index' = 0
                THEN [track EXCEPT !.stage = 2]
                ELSE IF track.stage = 3 /\ active_mask_index' = 1
                     THEN [track EXCEPT !.stage = 4]
                ELSE NoTrack
    /\ UNCHANGED <<shape, calls, instance_in, class_in, ret, first_ret,
                   app_calls, viewer_open, n_edits>>

\* the class channel saved as the viewer shows it, its contours not put back
seg_as_shown(labels, instance) == labels

\* seg[1] = Compute4Mask.add_contour(seg[1], seg[0]), seg being the data of
\* the layer
seg_with_contour(labels, instance) == add_contour(labels, instance)

\* the save made whatever the validator reports
may_save_curated_unchecked(result) == TRUE

\* the save held back by the mismatch flag alone
may_save_curated_mismatch_only(result) == ~result[2]

\* the else branch of on_add_to_curated_button_clicked
may_save_curated(result) == ~result[1] /\ ~result[2]

\* the two early returns of both buttons: the image on show was opened from
\* the curated folder, or the layer selected is not a segmentation
refused(path, seg_selected) == path = "train_data_path" \/ ~seg_selected

\* on_add_to_curated_button_clicked. The click reads two things the user
\* sets outside the handlers modelled: path, the folder of the image selected
\* in the main window (app.cur_selected_path), and seg_selected, whether the
\* layer selected in the viewer is the segmentation. An early return shows a
\* message box and leaves every field as it was.
OnAddToCuratedButtonClicked ==
    /\ viewer_open
    /\ \/ /\ \E path \in Paths, seg_selected \in BOOLEAN : refused(path, seg_selected)
          /\ UNCHANGED vars
       \/ /\ \E path \in Paths, seg_selected \in BOOLEAN : ~refused(path, seg_selected)
          /\ \E seg1 \in {seg_with_contour(labels_mask, instance_mask)} :
             \E result \in {assert_consistent_labels(instance_mask, seg1)} :
                /\ pc' = "curated"
                /\ labels_mask' = seg1
                /\ class_shown' = seg1
                /\ ret' = result
                /\ IF may_save_curated(result)
                   THEN /\ app_calls' = app_calls \o
                              << MoveImages("train_data_path"),
                                 SaveImage("train_data_path", <<instance_mask, seg1>>),
                                 DeleteImages >>
                        /\ viewer_open' = FALSE
                   ELSE UNCHANGED <<app_calls, viewer_open>>
                /\ track' = NoTrack
                /\ UNCHANGED <<shape, calls, instance_in, class_in,
                               instance_mask, original_instance_mask,
                               old_instances, first_ret, contours_mask,
                               failed_ids, original_class_mask,
                               active_mask_index, n_edits, trigger>>

\* on_add_to_inprogress_button_clicked
OnAddToInprogressButtonClicked ==
    /\ viewer_open
    /\ \/ /\ \E path \in Paths, seg_selected \in BOOLEAN : refused(path, seg_selected)
          /\ UNCHANGED vars
       \/ /\ \E path \in Paths, seg_selected \in BOOLEAN : ~refused(path, seg_selected)
          /\ \E seg1 \in {seg_with_contour(labels_mask, instance_mask)} :
                /\ pc' = "inprogress"
                /\ labels_mask' = seg1
                /\ class_shown' = seg1
                /\ app_calls' = app_calls \o
                      << MoveImages("inprogr_data_path"),
                         SaveImage("inprogr_data_path", <<instance_mask, seg1>>) >>
                /\ viewer_open' = FALSE
                /\ ret' = <<>>
                /\ track' = NoTrack
                /\ UNCHANGED <<shape, calls, instance_in, class_in,
                               instance_mask, original_instance_mask,
                               old_instances, first_ret, contours_mask,
                               failed_ids, original_class_mask,
                               active_mask_index, n_edits, trigger>>

NextViewer ==
    \/ PaintInstance
    \/ FillClass
    \/ AxisChanged
    \/ OnAddToCuratedButtonClicked
    \/ OnAddToInprogressButtonClicked

SpecViewer == InitViewer /\ [][NextViewer]_vars

(***************************************************************************)
(* The two save buttons, clicked in a viewer just opened on a pair a        *)
(* segmentation file can hold (the in-progress folder keeps pairs saved    *)
(* without validation): on the one-row images any class values on any ids, *)
(* objects in pieces and without class included; on the 4x4 images objects *)
(* in the 2x2 window off the border, each with one class value or none,    *)
(* which the viewer shows with the contour pixels zeroed.                  *)
(***************************************************************************)
InitSave ==
    /\ \/ /\ shape = RowShape
          /\ instance_in \in [Pixels(shape) -> 0 .. MaxId]
          /\ class_in \in [Pixels(shape) -> 0 .. MaxClass]
       \/ /\ shape = SquareShape
          /\ \E w \in [SquareWindow -> 0 .. MaxId], class_of \in [1 .. MaxId -> 0 .. MaxClass] :
                /\ instance_in = [p \in Pixels(shape) |->
                                     IF p \in SquareWindow THEN w[p] ELSE 0]
                /\ class_in = [p \in Pixels(shape) |->
                                  IF p \in SquareWindow /\ w[p] # 0
                                  THEN class_of[w[p]] ELSE 0]
    /\ Opened

NextSave ==
    \/ OnAddToCuratedButtonClicked
    \/ OnAddToInprogressButtonClicked

SpecSave == InitSave /\ [][NextSave]_vars

\* the save_image calls made so far
Saved == {app_calls[i] : i \in {j \in 1 .. Len(app_calls) : app_calls[j].call = "save_image"}}

\* the calls of a completed curated save of the pair on show
CuratedSequence ==
    << MoveImages("train_data_path"),
       SaveImage("train_data_path", <<instance_mask, labels_mask>>),
       DeleteImages >>

\* C11: when assert_consistent_labels, run by on_add_to_curated_button_clicked
\* on the pair with its contours put back, reports an annotation error or a
\* mismatch error, no image is moved, no segmentation is saved, no file is
\* deleted and the viewer stays open; the move, save, delete and close
\* sequence runs only when both flags are False.
C11_CuratedSaveBlockedByValidator ==
    /\ pc = "curated" =>
          IF ret[1] \/ ret[2]
          THEN app_calls = <<>> /\ viewer_open
          ELSE app_calls = CuratedSequence /\ ~viewer_open
    /\ (\E c \in Saved : c.path = "train_data_path") =>
          /\ pc = "curated"
          /\ ~ret[1]
          /\ ~ret[2]

\* C11 witness: the curated button was clicked on a pair with an annotation
\* error; nothing was moved, saved or deleted and the viewer is open.
C11_Witness ==
    /\ pc = "curated"
    /\ ret[1]
    /\ ret[3] # <<>>
    /\ app_calls = <<>>
    /\ viewer_open

\* C11 witness of the other branch: a curated save that went through.
C11_SavedWhenValid ==
    /\ pc = "curated"
    /\ ~ret[1]
    /\ ~ret[2]
    /\ ObjectIds(instance_mask) # {}
    /\ app_calls = CuratedSequence
    /\ ~viewer_open

\* C12 as stated: every save_image call made by either save button is made
\* with a mask pair for which assert_consistent_labels reports no annotation
\* error.
C12_NoSaveWithAnnotationError ==
    \A c \in Saved : ~assert_consistent_labels(c.seg[1], c.seg[2])[1]

\* C12 amended: every save_image call made by the 'Curated dataset' button is
\* made with a mask pair for which assert_consistent_labels reports no
\* annotation error; the 'Curatation in progress' button saves the pair
\* without validating it.
C12_NoCuratedSaveWithAnnotationError ==
    \A c \in Saved :
        c.path = "train_data_path" => ~assert_consistent_labels(c.seg[1], c.seg[2])[1]

\* C12 witness: a pair with an object that has a class was saved to the
\* curated dataset, validated and free of annotation errors.
C12_Witness ==
    \E c \in Saved :
        /\ c.path = "train_data_path"
        /\ \E p \in DOMAIN c.seg[1] : c.seg[1][p] # 0 /\ c.seg[2][p] # 0
        /\ ~assert_consistent_labels(c.seg[1], c.seg[2])[1]

\* C12 witness of the unvalidated save: a pair with an annotation error was
\* saved to the in-progress folder.
C12_InprogressSavedWithError ==
    \E c \in Saved :
        /\ c.path = "inprogr_data_path"
        /\ assert_consistent_labels(c.seg[1], c.seg[2])[1]

\* C19: in on_add_to_curated_button_clicked the mismatch branch is never
\* taken: add_contour runs on the same instance channel right before
\* assert_consistent_labels, so for every pair the user can have produced
\* mismatch_error is False and faulty_ids_missmatch is empty; only an
\* annotation error holds a curated save back.
C19_MismatchBranchUnreachable ==
    pc = "curated" =>
        /\ ~ret[2]
        /\ ret[4] = <<>>
        /\ viewer_open => ret[1]

\* C19 witness: the curated button was clicked right after the image was
\* opened, on an object whose class the viewer had zeroed on one pixel (a
\* contour pixel) and kept on another: the class channel on show held two
\* values on the object, and no mismatch is reported.
C19_Witness ==
    /\ pc = "curated"
    /\ n_edits = 0
    /\ trigger = NoTrigger
    /\ ~ret[2]
    /\ ret[4] = <<>>
    /\ \E p, q \in DOMAIN instance_mask :
          /\ instance_mask[p] # 0
          /\ instance_mask[q] = instance_mask[p]
          /\ contours_mask[p] # 0
          /\ contours_mask[q] = 0
          /\ class_in[q] # 0

\* C15: every edit of a channel runs the reconciler of the other channel at
\* the next channel switch: when axis_changed fires with the instance channel
\* changed against original_instance_mask, update_labels_mask runs; when it
\* fires with the class channel changed in any way (an object recoloured to
\* background, or from one non-zero class to another), update_instance_mask
\* runs and original_class_mask holds the edited class values.
C15_EveryEditReconciled ==
    pc = "axis_changed" =>
        /\ trigger.instance_edited => trigger.ran = "update_labels_mask"
        /\ trigger.class_edited =>
              /\ trigger.ran = "update_instance_mask"
              /\ \A p \in DOMAIN instance_mask :
                    instance_mask[p] # 0 =>
                       original_class_mask[p] =
                          add_contour(labels_mask, instance_mask)[p]

\* C16: from a loaded pair in which every object has one class value, after
\* any edits and channel switches every non-zero id of original_instance_mask
\* has exactly one value of original_class_mask over its pixels.
C16_SnapshotClassUniform ==
    \A id \in ObjectIds(original_instance_mask) :
        Cardinality({original_class_mask[p] :
                        p \in Where(original_instance_mask, id)}) = 1

\* C17: while the user has changed no pixel since the image was opened, any
\* number of axis_changed events leaves the instance channel,
\* original_instance_mask and the id registry as they were at opening: no
\* object is deleted.
C17_SwitchingWithoutEditsChangesNothing ==
    (n_edits = 0 /\ ret = <<>> /\ viewer_open) =>
        /\ instance_mask = instance_in
        /\ original_instance_mask = instance_in
        /\ old_instances = get_unique_objects(instance_in)

\* C18: the user gives every pixel of an object the non-zero class k in the
\* class channel, switches to the instance channel, edits the instance mask
\* elsewhere without touching the object, and switches back: the class
\* channel then shows k on the object outside the contour pixels, and
\* original_class_mask holds k on the object's pixels.
C18_AssignedClassSurvives ==
    track.stage = 4 =>
        \A id \in track.ids :
            \A p \in Where(instance_mask, id) :
                /\ original_class_mask[p] = track.k
                /\ contours_mask[p] = 0 => labels_mask[p] = track.k

====
